---- MODULE Spec2Model ----
(***************************************************************************)
(* Model of auto-implement/scripts/auto_implement_plan.py: the plan        *)
(* parser (PlanAutomator.parse_plan), the completion classifier            *)
(* (_is_phase_completed), the phase driver (implement_phase), the run      *)
(* controller (run_full_implementation) and the --plan branch of main with *)
(* its two exception handlers.                                             *)
(*                                                                         *)
(* Text is a sequence of tokens.  A token is one character ("t" stands for *)
(* any character no pattern of the program looks at) or one of the         *)
(* literals the program searches for, taken as a unit.                     *)
(***************************************************************************)
EXTENDS Integers, Sequences, FiniteSets, TLC

\* ------------------------------------------------------------------ bounds

\* lines of a plan document in the parser's specification
MaxLines == 4
\* phase sections of a plan document in the run's specification
MaxPhases == 2
\* messages of one agent stream in the run's specification
MaxRunStream == 2
\* messages of one agent stream in the stream's specification
MaxStream == 3

\* ------------------------------------------------------------------- text

NL == "\n"
WS == {" "}
DIGITS == <<"0", "1", "2", "3", "4", "5", "6", "7", "8", "9">>
HEADING_PREFIX == "## Phase "
AUTOMATED_HEADER == "#### Automated Verification:"
MANUAL_HEADER == "#### Manual Verification:"
PHASE_TOKEN == "Phase"
COMPLETE_TOKEN == "Complete"
MANUAL_READY == "Ready for Manual Verification"

\* Python's `needle in text` for a needle that is one token
Contains(text, needle) == \E i \in 1..Len(text) : text[i] = needle

IsDigit(c) == \E d \in 1..Len(DIGITS) : DIGITS[d] = c

DigitVal(c) == (CHOOSE d \in 1..Len(DIGITS) : DIGITS[d] = c) - 1

\* int(s) for a string of decimal digits
RECURSIVE IntOf(_)
IntOf(ds) ==
    IF ds = <<>> THEN 0
    ELSE 10 * IntOf(SubSeq(ds, 1, Len(ds) - 1)) + DigitVal(ds[Len(ds)])

\* the first index >= i of s that holds no whitespace (Len(s) + 1 if none): \s*
RECURSIVE SkipWs(_, _)
SkipWs(s, i) ==
    IF i <= Len(s) /\ s[i] \in WS THEN SkipWs(s, i + 1) ELSE i

\* the first index >= i of s that holds no digit: \d*
RECURSIVE SkipDigits(_, _)
SkipDigits(s, i) ==
    IF i <= Len(s) /\ IsDigit(s[i]) THEN SkipDigits(s, i + 1) ELSE i

\* the last index <= i of s that holds no whitespace (0 if none)
RECURSIVE SkipWsBack(_, _)
SkipWsBack(s, i) ==
    IF i >= 1 /\ s[i] \in WS THEN SkipWsBack(s, i - 1) ELSE i

\* str.strip()
Strip(s) == SubSeq(s, SkipWs(s, 1), SkipWsBack(s, Len(s)))

\* the index of the first separator of s at or after i, Len(s) + 1 if none
NextNL(s, i) ==
    LET at == { k \in i..Len(s) : s[k] = NL }
    IN  IF at = {} THEN Len(s) + 1 ELSE CHOOSE k \in at : \A m \in at : k <= m

\* str.split('\n') of s from index i on: always at least one line
RECURSIVE SplitFrom(_, _)
SplitFrom(s, i) ==
    LET j == NextNL(s, i)
    IN  IF j > Len(s) THEN <<SubSeq(s, i, Len(s))>>
        ELSE <<SubSeq(s, i, j - 1)>> \o SplitFrom(s, j + 1)

Split(s) == SplitFrom(s, 1)

\* '\n'.join(lines)
RECURSIVE Join(_)
Join(lines) ==
    IF lines = <<>> THEN <<>>
    ELSE IF Len(lines) = 1 THEN lines[1]
    ELSE lines[1] \o <<NL>> \o Join(Tail(lines))

\* -------------------------------------------------------- parse_plan regex

\* the index of the colon when re.match(r'^## Phase (\d+):\s*(.+?)$', line)
\* matches, 0 when it does not: the literal, one or more digits, a colon and
\* at least one more character (\s* gives back what .+? needs)
HeadingColon(line) ==
    IF Len(line) >= 1 /\ line[1] = HEADING_PREFIX
    THEN LET j == SkipDigits(line, 2)
         IN  IF j > 2 /\ j <= Len(line) /\ line[j] = ":" /\ Len(line) >= j + 1
             THEN j ELSE 0
    ELSE 0

IsHeading(line) == HeadingColon(line) # 0

\* (int(match.group(1)), match.group(2).strip())
HeadingPhase(line) ==
    LET j == HeadingColon(line)
    IN  <<IntOf(SubSeq(line, 2, j - 1)), Strip(SubSeq(line, j + 1, Len(line)))>>

\* ---------------------------------------------------- _is_phase_completed

\* re.match(r'^\s*-\s*\[\s*\]\s*(.+)', line): the dash, an empty bracket pair
\* and at least one more character
MatchesUnchecked(line) ==
    LET a == SkipWs(line, 1)
    IN  /\ a <= Len(line) /\ line[a] = "-"
        /\ LET b == SkipWs(line, a + 1)
           IN  /\ b <= Len(line) /\ line[b] = "["
               /\ LET c == SkipWs(line, b + 1)
                  IN  /\ c <= Len(line) /\ line[c] = "]"
                      /\ Len(line) >= c + 1

IsAutomatedHeader(line) == Contains(line, AUTOMATED_HEADER)

IsManualHeader(line) == Contains(line, MANUAL_HEADER)

\* the scan with no branch for the manual header
RECURSIVE ScanUnchecked_NoManual(_, _, _)
ScanUnchecked_NoManual(lines, i, in_automated_section) ==
    IF i > Len(lines) THEN FALSE
    ELSE IF IsAutomatedHeader(lines[i]) THEN ScanUnchecked_NoManual(lines, i + 1, TRUE)
    ELSE IF in_automated_section /\ MatchesUnchecked(lines[i]) THEN TRUE
    ELSE ScanUnchecked_NoManual(lines, i + 1, in_automated_section)

\* the scan of the lines from i on, in_automated_section as given: TRUE when
\* it sets has_unchecked
RECURSIVE ScanUnchecked(_, _, _)
ScanUnchecked(lines, i, in_automated_section) ==
    IF i > Len(lines) THEN FALSE
    ELSE IF IsAutomatedHeader(lines[i]) THEN ScanUnchecked(lines, i + 1, TRUE)
    ELSE IF IsManualHeader(lines[i]) THEN ScanUnchecked(lines, i + 1, FALSE)
    ELSE IF in_automated_section /\ MatchesUnchecked(lines[i]) THEN TRUE
    ELSE ScanUnchecked(lines, i + 1, in_automated_section)

\* _is_phase_completed returning has_unchecked
_is_phase_completed_Inverted(phase_content) ==
    ScanUnchecked(Split(phase_content), 1, FALSE)

_is_phase_completed(phase_content) ==
    ~ScanUnchecked(Split(phase_content), 1, FALSE)

\* ------------------------------------------------------------- parse_plan

NoPhase == <<>>

Phase(number, name, content, is_completed) ==
    [number |-> number, name |-> name, content |-> content,
     is_completed |-> is_completed]

\* ClosePhase without the last line collected
ClosePhase_DropLast(current_phase, current_content) ==
    LET phase_content == Join(SubSeq(current_content, 1, Len(current_content) - 1))
    IN  Phase(current_phase[1], current_phase[2], phase_content,
              _is_phase_completed(phase_content))

\* Phase(...) of the phase that is open, its content the lines collected
ClosePhase(current_phase, current_content) ==
    LET phase_content == Join(current_content)
    IN  Phase(current_phase[1], current_phase[2], phase_content,
              _is_phase_completed(phase_content))

\* the for loop over the lines, then the last phase
RECURSIVE ParseLoop(_, _, _, _, _)
ParseLoop(lines, i, phases, current_phase, current_content) ==
    IF i > Len(lines)
    THEN IF current_phase # NoPhase
         THEN Append(phases, ClosePhase(current_phase, current_content))
         ELSE phases
    ELSE IF IsHeading(lines[i])
    THEN ParseLoop(lines, i + 1,
                   IF current_phase # NoPhase
                   THEN Append(phases, ClosePhase(current_phase, current_content))
                   ELSE phases,
                   HeadingPhase(lines[i]), <<>>)
    ELSE IF current_phase # NoPhase
    THEN ParseLoop(lines, i + 1, phases, current_phase,
                   Append(current_content, lines[i]))
    ELSE ParseLoop(lines, i + 1, phases, current_phase, current_content)

\* parse_plan on the text of a plan file that exists
parse_plan(content) == ParseLoop(Split(content), 1, <<>>, NoPhase, <<>>)

\* ---------------------------------------------------------- agent messages

\* a content block of a message: a TextBlock with its text, or another block
TextBlock(text) == [is_text |-> TRUE, text |-> text]
OtherBlock == [is_text |-> FALSE, text |-> <<>>]

\* a message of the stream: an AssistantMessage or a message of another type
Message(is_assistant, content) ==
    [is_assistant |-> is_assistant, content |-> content]

\* "Phase" in text and "Complete" in text
SuccessIndicator(text) ==
    Contains(text, PHASE_TOKEN) /\ Contains(text, COMPLETE_TOKEN)

\* "Ready for Manual Verification" in text
ManualRequest(text) == Contains(text, MANUAL_READY)

\* ProcessBlock with success assigned from the current block alone
ProcessBlock_Overwrite(st, block) ==
    IF block.is_text
    THEN LET hit_success == SuccessIndicator(block.text)
             hit_manual == ManualRequest(block.text)
         IN  [success |-> hit_success \/ hit_manual,
              chunks |-> Append(st.chunks,
                                [text |-> block.text,
                                 branches |->
                                    (IF hit_success THEN {"success"} ELSE {})
                                    \cup (IF hit_manual THEN {"manual"} ELSE {})])]
    ELSE st

\* ProcessBlock with the second `if` an `elif`
ProcessBlock_Elif(st, block) ==
    IF block.is_text
    THEN LET hit_success == SuccessIndicator(block.text)
             hit_manual == ~hit_success /\ ManualRequest(block.text)
         IN  [success |-> st.success \/ hit_success \/ hit_manual,
              chunks |-> Append(st.chunks,
                                [text |-> block.text,
                                 branches |->
                                    (IF hit_success THEN {"success"} ELSE {})
                                    \cup (IF hit_manual THEN {"manual"} ELSE {})])]
    ELSE st

\* the body of `for block in message.content` for one block: st is
\* [success, chunks]; chunks is what the logger is given for each TextBlock
\* (the text, and which of the two branches logged)
ProcessBlock(st, block) ==
    IF block.is_text
    THEN LET text == block.text
             hit_success == SuccessIndicator(text)
             hit_manual == ManualRequest(text)
             after_success == IF hit_success THEN TRUE ELSE st.success
             after_manual == IF hit_manual THEN TRUE ELSE after_success
         IN  [success |-> after_manual,
              chunks |-> Append(st.chunks,
                                [text |-> text,
                                 branches |->
                                    (IF hit_success THEN {"success"} ELSE {})
                                    \cup (IF hit_manual THEN {"manual"} ELSE {})])]
    ELSE st

RECURSIVE ProcessBlocks(_, _, _)
ProcessBlocks(st, content, i) ==
    IF i > Len(content) THEN st
    ELSE ProcessBlocks(ProcessBlock(st, content[i]), content, i + 1)

\* the body of `async for message in query(...)` for one message
ProcessMessage(st, message) ==
    IF message.is_assistant THEN ProcessBlocks(st, message.content, 1) ELSE st

\* ------------------------------------------------------ run_full_implementation

None == <<>>
Some(n) == <<n>>

\* Python's truth value of an Optional[int]
Truthy(opt) == opt # None /\ opt[1] # 0

\* [p for p in phases if p.number >= start_phase], when start_phase is truthy
FilterStart(phs, start) ==
    IF Truthy(start)
    THEN LET keep(p) == p.number >= start[1] IN SelectSeq(phs, keep)
    ELSE phs

\* [p for p in phases if p.number <= end_phase], when end_phase is truthy
FilterEnd(phs, end) ==
    IF Truthy(end)
    THEN LET keep(p) == p.number <= end[1] IN SelectSeq(phs, keep)
    ELSE phs

\* the loop without its break
StopsRun_Never(ok) == FALSE

\* `if not success: ... break`
StopsRun(ok) == ~ok

\* `if phase.number < phases[-1].number`
PauseDue(phase, phs) == phase.number < phs[Len(phs)].number

\* ------------------------------------------------------------------ inputs

HeadingLine(n) == <<HEADING_PREFIX, DIGITS[n + 1], ":", " ", "t">>
AutomatedLine == <<AUTOMATED_HEADER>>
ManualLine == <<MANUAL_HEADER>>
UncheckedLine == <<"-", " ", "[", " ", "]", " ", "t">>

\* the lines of the documents the parser's specification reads
ParseLines ==
    { HeadingLine(1),
      <<HEADING_PREFIX, "0", "2", ":", "t", " ">>,
      <<HEADING_PREFIX, "1", ":">>,
      AutomatedLine,
      ManualLine,
      UncheckedLine,
      <<" ", "-", "[", "]", " ">>,
      <<"-", " ", "[", " ", "]">>,
      <<"-", " ", "[", " ", "]", " ", MANUAL_HEADER>>,
      <<>> }

SeqsUpTo(S, lo, hi) == UNION { [1..n -> S] : n \in lo..hi }

ParseDocs == { Join(ls) : ls \in SeqsUpTo(ParseLines, 1, MaxLines) }

\* the numbers of the phases, and the window bounds, of the run's specification
PhaseNums == {1, 2, 3}
WindowBounds == {None, Some(0), Some(2)}

\* one phase of a document of the run's specification: its heading, and a body
\* with an unchecked automated item or none
Section(n, unchecked) ==
    <<HeadingLine(n)>> \o (IF unchecked THEN <<AutomatedLine, UncheckedLine>> ELSE <<>>)

RECURSIVE Flatten(_)
Flatten(ss) == IF ss = <<>> THEN <<>> ELSE ss[1] \o Flatten(Tail(ss))

Sections == { Section(n, u) : n \in PhaseNums, u \in BOOLEAN }

RunDocs == { Join(Flatten(ss)) : ss \in SeqsUpTo(Sections, 0, MaxPhases) }

SuccessText == <<PHASE_TOKEN, " ", "2", " ", COMPLETE_TOKEN>>
ManualText == <<MANUAL_READY>>
BothText == <<COMPLETE_TOKEN, PHASE_TOKEN, MANUAL_READY>>

\* the messages an agent stream of the run's specification is made of
RunMessages ==
    { Message(TRUE, <<TextBlock(SuccessText)>>),
      Message(TRUE, <<TextBlock(<<"t">>)>>) }

\* the messages an agent stream of the stream's specification is made of
StreamMessages ==
    { Message(TRUE, <<TextBlock(SuccessText)>>),
      Message(TRUE, <<TextBlock(ManualText)>>),
      Message(TRUE, <<TextBlock(BothText)>>),
      Message(TRUE, <<TextBlock(<<PHASE_TOKEN, "t">>), TextBlock(<<COMPLETE_TOKEN>>)>>),
      Message(TRUE, <<OtherBlock, TextBlock(<<"t">>), TextBlock(ManualText)>>),
      Message(TRUE, <<TextBlock(<<>>)>>),
      Message(TRUE, <<>>),
      Message(FALSE, <<TextBlock(SuccessText)>>),
      Message(FALSE, <<TextBlock(ManualText)>>),
      Message(FALSE, <<>>) }

\* ------------------------------------------------------------------- state

VARIABLES
    plan_exists,     \* plan_path.exists()
    plan_text,       \* the text of the plan file
    template_found,  \* implement_plan.md is in one of the commands directories
    dry_run,         \* self.dry_run
    start_phase,     \* run_full_implementation's start_phase
    end_phase,       \* run_full_implementation's end_phase
    pc,              \* where run_full_implementation (or implement_phase) is
    phases,          \* run_full_implementation's phases
    idx,             \* the position in phases of the for loop's phase
    success,         \* implement_phase's success, then its return value
    stream,          \* the messages the query of implement_phase has yielded
    chunks,          \* per TextBlock of that query: text and log branches
    error,           \* the exception that left run_full_implementation
    exit_code,       \* the exit status of the process, once main has ended
    events           \* what the run has done, in order

vars == <<plan_exists, plan_text, template_found, dry_run, start_phase, end_phase,
          pc, phases, idx, success, stream, chunks, error, exit_code, events>>

inputs == <<plan_exists, plan_text, template_found, dry_run, start_phase, end_phase>>

Ev(ev, i) == [ev |-> ev, i |-> i]

NoError == "none"
KeyboardInterrupt == "KeyboardInterrupt"
\* raise FileNotFoundError(f"Plan file not found: ...")
PlanNotFound == "FileNotFoundError: Plan file not found"
\* raise FileNotFoundError(f"Slash command not found: ...")
CommandNotFound == "FileNotFoundError: Slash command not found"

InitLocals ==
    /\ pc = "Pending"
    /\ phases = <<>>
    /\ idx = 0
    /\ success = FALSE
    /\ stream = <<>>
    /\ chunks = <<>>
    /\ error = NoError
    /\ exit_code = None
    /\ events = <<>>

\* a plan file that does not exist has no text
Init ==
    /\ plan_exists \in BOOLEAN
    /\ plan_text \in (IF plan_exists THEN RunDocs ELSE {<<>>})
    /\ template_found \in BOOLEAN
    /\ dry_run \in BOOLEAN
    /\ start_phase \in WindowBounds
    /\ end_phase \in WindowBounds
    /\ InitLocals

\* ----------------------------------------------------------------- actions

\* run_full_implementation without its return on an empty list
NoPhases_Never(parsed) == FALSE

\* `if not phases`
NoPhases(parsed) == parsed = <<>>

\* run_full_implementation up to `return` on no phases; parse_plan raises when
\* the plan file does not exist
ParsePlan ==
    /\ pc = "Pending"
    /\ IF ~plan_exists
       THEN /\ error' = PlanNotFound
            /\ pc' = "Raised"
            /\ UNCHANGED <<phases, events>>
       ELSE LET parsed == parse_plan(plan_text)
            IN  /\ phases' = parsed
                /\ error' = error
                /\ IF NoPhases(parsed)
                   THEN /\ events' = events \o <<Ev("open_plan", 0), Ev("log_no_phases", 0)>>
                        /\ pc' = "Returned"
                   ELSE /\ events' = Append(events, Ev("open_plan", 0))
                        /\ pc' = "Parsed"
    /\ UNCHANGED <<inputs, exit_code, idx, success, stream, chunks>>

\* the two filters on start_phase and end_phase
FilterPhases ==
    /\ pc = "Parsed"
    /\ phases' = FilterEnd(FilterStart(phases, start_phase), end_phase)
    /\ pc' = "Loop"
    /\ UNCHANGED <<inputs, exit_code, idx, success, stream, chunks, error, events>>

\* the loop starting over at the first phase when the list is exhausted
LoopNext_Rewind ==
    /\ pc = "Loop"
    /\ IF idx < Len(phases)
       THEN /\ idx' = idx + 1
            /\ pc' = "Implement"
       ELSE IF Len(phases) > 0
       THEN /\ idx' = 1
            /\ pc' = "Implement"
       ELSE /\ idx' = idx
            /\ pc' = "AfterLoop"
    /\ UNCHANGED <<inputs, exit_code, phases, success, stream, chunks, error, events>>

\* `for phase in phases`: the next phase, or the end of the loop
LoopNext ==
    /\ pc = "Loop"
    /\ IF idx < Len(phases)
       THEN /\ idx' = idx + 1
            /\ pc' = "Implement"
       ELSE /\ idx' = idx
            /\ pc' = "AfterLoop"
    /\ UNCHANGED <<inputs, exit_code, phases, success, stream, chunks, error, events>>

\* implement_phase without its check of is_completed
SkipsCompleted_Never(phase) == FALSE

\* `if phase.is_completed`
SkipsCompleted(phase) == phase.is_completed

\* implement_phase without its check of self.dry_run
DryRun_Never == FALSE

\* `if self.dry_run`
DryRun == dry_run

\* implement_phase up to load_slash_command
ImplementPhase ==
    /\ pc = "Implement"
    /\ stream' = <<>>
    /\ chunks' = <<>>
    /\ IF SkipsCompleted(phases[idx]) \/ DryRun
       THEN /\ success' = TRUE
            /\ events' = events \o <<Ev("implement_phase", idx), Ev("return_true", idx)>>
            /\ pc' = "PhaseReturned"
       ELSE /\ success' = success
            /\ events' = Append(events, Ev("implement_phase", idx))
            /\ pc' = "Load"
    /\ UNCHANGED <<inputs, exit_code, phases, idx, error>>

\* load_slash_command without its raise
TemplateMissing_Never == FALSE

\* `if not command_path.exists()`, after both directories were tried
TemplateMissing == ~template_found

\* load_slash_command("implement_plan")
LoadCommand ==
    /\ pc = "Load"
    /\ IF TemplateMissing
       THEN /\ error' = CommandNotFound
            /\ pc' = "Raised"
            /\ events' = events
       ELSE /\ error' = error
            /\ pc' = "Query"
            /\ events' = Append(events, Ev("load_template", idx))
    /\ UNCHANGED <<inputs, exit_code, phases, idx, success, stream, chunks>>

\* success = False; query(prompt=prompt, options=options)
Query ==
    /\ pc = "Query"
    /\ success' = FALSE
    /\ events' = Append(events, Ev("query", idx))
    /\ pc' = "Stream"
    /\ UNCHANGED <<inputs, exit_code, phases, idx, stream, chunks, error>>

\* the loop over the stream left with a break at the first signal of success
Recv_BreakOnSuccess(messages, max) ==
    /\ pc = "Stream"
    /\ Len(stream) < max
    /\ \E message \in messages :
          LET st == ProcessMessage([success |-> success, chunks |-> chunks], message)
          IN  /\ stream' = Append(stream, message)
              /\ success' = st.success
              /\ chunks' = st.chunks
              /\ IF st.success
                 THEN /\ pc' = "PhaseReturned"
                      /\ events' = Append(events, Ev("return_true", idx))
                 ELSE UNCHANGED <<pc, events>>
    /\ UNCHANGED <<inputs, exit_code, phases, idx, error>>

\* one message of the stream
Recv(messages, max) ==
    /\ pc = "Stream"
    /\ Len(stream) < max
    /\ \E message \in messages :
         LET st == ProcessMessage([success |-> success, chunks |-> chunks], message)
         IN  /\ stream' = Append(stream, message)
             /\ success' = st.success
             /\ chunks' = st.chunks
    /\ UNCHANGED <<inputs, exit_code, pc, phases, idx, error, events>>

\* the stream ends: return success
StreamEnd ==
    /\ pc = "Stream"
    /\ events' = events \o <<Ev("stream_end", idx),
                              Ev(IF success THEN "return_true" ELSE "return_false", idx)>>
    /\ pc' = "PhaseReturned"
    /\ UNCHANGED <<inputs, exit_code, phases, idx, success, stream, chunks, error>>

\* the loop body handing a phase that failed to implement_phase once more
AfterPhase_Retry ==
    /\ pc = "PhaseReturned"
    /\ IF StopsRun(success)
       THEN /\ events' = Append(events, Ev("log_failed", idx))
            /\ pc' = "Implement"
       ELSE /\ events' = Append(events, Ev("log_phase_completed", idx))
            /\ pc' = "Loop"
    /\ stream' = <<>>
    /\ chunks' = <<>>
    /\ UNCHANGED <<inputs, exit_code, phases, idx, success, error>>

\* the loop body marking a phase that returned True as completed
AfterPhase_MarkDone ==
    /\ pc = "PhaseReturned"
    /\ IF StopsRun(success)
       THEN /\ events' = Append(events, Ev("log_failed", idx))
            /\ pc' = "AfterLoop"
            /\ phases' = phases
       ELSE /\ phases' = [phases EXCEPT ![idx].is_completed = TRUE]
            /\ IF PauseDue(phases[idx], phases)
               THEN /\ events' = events \o <<Ev("log_phase_completed", idx), Ev("log_clearing", idx)>>
                    /\ pc' = "Sleep"
               ELSE /\ events' = Append(events, Ev("log_phase_completed", idx))
                    /\ pc' = "Loop"
    /\ stream' = <<>>
    /\ chunks' = <<>>
    /\ UNCHANGED <<inputs, exit_code, idx, success, error>>

\* the loop body after implement_phase returned (its locals are gone)
AfterPhase ==
    /\ pc = "PhaseReturned"
    /\ IF StopsRun(success)
       THEN /\ events' = Append(events, Ev("log_failed", idx))
            /\ pc' = "AfterLoop"
       ELSE IF PauseDue(phases[idx], phases)
       THEN /\ events' = events \o <<Ev("log_phase_completed", idx), Ev("log_clearing", idx)>>
            /\ pc' = "Sleep"
       ELSE /\ events' = Append(events, Ev("log_phase_completed", idx))
            /\ pc' = "Loop"
    /\ stream' = <<>>
    /\ chunks' = <<>>
    /\ UNCHANGED <<inputs, exit_code, phases, idx, success, error>>

\* await asyncio.sleep(1)
Sleep ==
    /\ pc = "Sleep"
    /\ events' = Append(events, Ev("sleep", idx))
    /\ pc' = "Loop"
    /\ UNCHANGED <<inputs, exit_code, phases, idx, success, stream, chunks, error>>

\* the two log lines after the loop
Finish ==
    /\ pc = "AfterLoop"
    /\ events' = Append(events, Ev("log_implementation_complete", 0))
    /\ pc' = "Returned"
    /\ UNCHANGED <<inputs, exit_code, phases, idx, success, stream, chunks, error>>

\* the user interrupts the run while it is suspended, on the agent's stream
\* or in the pause between two phases
Interrupt ==
    /\ pc \in {"Stream", "Sleep"}
    /\ error' = KeyboardInterrupt
    /\ pc' = "Raised"
    /\ UNCHANGED <<inputs, exit_code, phases, idx, success, stream, chunks, events>>

\* main's handlers exiting with status 0
ExitStatus_Zero(err) == 0

\* the exit status main ends with: sys.exit(1) in both handlers, 0 when
\* run_full_implementation returned
ExitStatus(err) == IF err = NoError THEN 0 ELSE 1

\* main after run_full_implementation: it returned, or one of the two
\* handlers caught what it raised
MainEnd ==
    /\ pc \in {"Returned", "Raised"}
    /\ exit_code' = Some(ExitStatus(error))
    /\ events' = IF pc = "Returned" THEN events
                 ELSE IF error = KeyboardInterrupt
                 THEN Append(events, Ev("print_interrupted", 0))
                 ELSE Append(events, Ev("log_error", 0))
    /\ pc' = "Exited"
    /\ UNCHANGED <<inputs, phases, idx, success, stream, chunks, error>>

RecvRun == Recv(RunMessages, MaxRunStream)

Next ==
    \/ ParsePlan
    \/ FilterPhases
    \/ LoopNext
    \/ ImplementPhase
    \/ LoadCommand
    \/ Query
    \/ RecvRun
    \/ StreamEnd
    \/ AfterPhase
    \/ Sleep
    \/ Finish
    \/ Interrupt
    \/ MainEnd

Spec == Init /\ [][Next]_vars

\* -------------------------------------------- the parser's specification

\* parse_plan alone, on every document of ParseDocs
InitParse ==
    /\ plan_exists = TRUE
    /\ plan_text \in ParseDocs
    /\ template_found = TRUE
    /\ dry_run = FALSE
    /\ start_phase = None
    /\ end_phase = None
    /\ InitLocals

NextParse == ParsePlan

SpecParse == InitParse /\ [][NextParse]_vars

\* -------------------------------------------- the stream's specification

\* a live run over a plan of one phase that is not completed, the agent's
\* stream made of StreamMessages
InitStream ==
    /\ plan_exists = TRUE
    /\ plan_text = Join(Section(1, TRUE))
    /\ template_found = TRUE
    /\ dry_run = FALSE
    /\ start_phase = None
    /\ end_phase = None
    /\ InitLocals

RecvStream == Recv(StreamMessages, MaxStream)

NextStream ==
    \/ ParsePlan
    \/ FilterPhases
    \/ LoopNext
    \/ ImplementPhase
    \/ LoadCommand
    \/ Query
    \/ RecvStream
    \/ StreamEnd
    \/ AfterPhase
    \/ Finish

SpecStream == InitStream /\ [][NextStream]_vars

\* ------------------------------------------------------------ the claims

Happened(ev) == \E k \in 1..Len(events) : events[k].ev = ev

HappenedFor(ev, i) == \E k \in 1..Len(events) : events[k] = Ev(ev, i)

\* the events in which a phase is handed to implement_phase or to the agent
PhaseWork == {"implement_phase", "load_template", "query"}

\* C1: once implement_phase has returned False for a phase, no phase is passed
\* to implement_phase and the agent is not queried again in that run
C1_StopAfterFailure ==
    \A j, k \in 1..Len(events) :
        (j < k /\ events[j].ev = "return_false") => events[k].ev \notin PhaseWork

\* phases 1, 2: phase 1 was queried and failed, the run has ended and phase 2
\* was never handed to implement_phase
C1_Witness ==
    /\ pc = "Returned"
    /\ Len(phases) = 2
    /\ \A i \in 1..2 : phases[i].number = i
    /\ HappenedFor("query", 1)
    /\ HappenedFor("return_false", 1)
    /\ ~HappenedFor("implement_phase", 2)

\* C2: the agent is never queried (and the prompt template never loaded) for a
\* phase whose is_completed is true; implement_phase returns True for it at
\* once, and the run goes on to the next phase
C2_CompletedNeverQueried ==
    /\ \A k \in 1..Len(events) :
          (events[k].ev \in {"load_template", "query"})
              => ~phases[events[k].i].is_completed
    /\ \A k \in 1..Len(events) :
          (events[k].ev = "implement_phase" /\ phases[events[k].i].is_completed)
              => /\ k < Len(events)
                 /\ events[k + 1] = Ev("return_true", events[k].i)
    /\ \A i \in 1..Len(phases) :
          (/\ pc = "Returned"
           /\ HappenedFor("implement_phase", i)
           /\ phases[i].is_completed
           /\ i < Len(phases))
              => HappenedFor("implement_phase", i + 1)

\* a live run that skipped a completed phase and then queried the agent for
\* the phase after it
C2_Witness ==
    /\ ~dry_run
    /\ Len(phases) >= 2
    /\ phases[1].is_completed
    /\ HappenedFor("return_true", 1)
    /\ HappenedFor("query", 2)

\* the window as the claim reads it: a bound that is given is applied
InClaimedWindow(n) ==
    /\ (start_phase # None => start_phase[1] <= n)
    /\ (end_phase # None => n <= end_phase[1])

\* C3: every phase handed to implement_phase has a number inside the window
\* [start_phase, end_phase], each bound applied whenever it is supplied
C3_OnlyWindowPhasesRun ==
    \A k \in 1..Len(events) :
        events[k].ev = "implement_phase" => InClaimedWindow(phases[events[k].i].number)

\* the texts of the text fragments of the messages ms, of every message or of
\* the assistant's messages alone
Fragments(ms, assistant_only) ==
    UNION { { ms[m].content[b].text :
                b \in { b \in 1..Len(ms[m].content) : ms[m].content[b].is_text } } :
            m \in { m \in 1..Len(ms) : ~assistant_only \/ ms[m].is_assistant } }

\* a text with a success signal, as the claim words it
HasSignal(text) ==
    \/ (Contains(text, PHASE_TOKEN) /\ Contains(text, COMPLETE_TOKEN))
    \/ Contains(text, MANUAL_READY)

\* implement_phase has returned for a phase it queried the agent about
LiveVerdict == pc = "PhaseReturned" /\ HappenedFor("query", idx)

\* C4 as claimed: the verdict of a live, non-completed phase is Success exactly
\* when a text fragment of some message of the stream, of whatever type,
\* carries a success signal
C4_Original_AnyMessage ==
    LiveVerdict => (success <=> \E t \in Fragments(stream, FALSE) : HasSignal(t))

\* C4 amended: the verdict is Success exactly when a TextBlock of some
\* AssistantMessage of the stream carries a success signal, and while the
\* stream is read success is true exactly when one was seen so far (so no
\* later fragment turns it back)
C4_VerdictIffAssistantSignal ==
    (pc = "Stream" \/ LiveVerdict)
        => (success <=> \E t \in Fragments(stream, TRUE) : HasSignal(t))

\* a verdict of Success from a signal in the first message, the messages
\* after it carrying none
C4_Witness ==
    /\ LiveVerdict
    /\ success
    /\ Len(stream) >= 2
    /\ \E t \in Fragments(<<stream[1]>>, TRUE) : HasSignal(t)
    /\ \A t \in Fragments(Tail(stream), FALSE) : ~HasSignal(t)

\* parse_plan has returned and its list is still as returned
ParsedNow == pc = "Parsed" \/ (pc = "Returned" /\ Happened("log_no_phases"))

DocLines == Split(plan_text)

\* the positions of the heading lines of the document
HeadingAt == { i \in 1..Len(DocLines) : IsHeading(DocLines[i]) }

\* the k-th heading line of the document
KthHeading(k) ==
    CHOOSE h \in HeadingAt : Cardinality({ g \in HeadingAt : g <= h }) = k

\* the position of the first heading after line h, or one past the last line
HeadingAfter(h) ==
    IF \E g \in HeadingAt : g > h
    THEN CHOOSE g \in HeadingAt : g > h /\ \A f \in HeadingAt : f > h => g <= f
    ELSE Len(DocLines) + 1

\* C5: parse_plan returns one phase per heading line, in the order of the
\* headings; the k-th phase has the number of the k-th heading and for content
\* the lines strictly between that heading and the next one (or the end)
C5_OnePhasePerHeading ==
    ParsedNow =>
        /\ Len(phases) = Cardinality(HeadingAt)
        /\ \A k \in 1..Len(phases) :
              LET h == KthHeading(k)
              IN  /\ phases[k].number = HeadingPhase(DocLines[h])[1]
                  /\ phases[k].content
                        = Join(SubSeq(DocLines, h + 1, HeadingAfter(h) - 1))

\* two phases of the same number, after a line that comes before the first
\* heading, the first phase with a line of content
C5_Witness ==
    /\ ParsedNow
    /\ Len(phases) = 2
    /\ phases[1].number = phases[2].number
    /\ ~IsHeading(DocLines[1])
    /\ phases[1].content # <<>>

\* the kind of section a line opens, if it opens one
HeaderKind(line) ==
    IF IsAutomatedHeader(line) THEN "automated"
    ELSE IF IsManualHeader(line) THEN "manual"
    ELSE "none"

\* line i of ls lies in an automated-verification section: the last header
\* line before it is an automated one
InAutomatedSection(ls, i) ==
    \E j \in 1..(i - 1) :
        /\ HeaderKind(ls[j]) = "automated"
        /\ \A m \in (j + 1)..(i - 1) : HeaderKind(ls[m]) # "manual"

\* line i of ls is an unchecked item of an automated-verification section
UncheckedItemAt(ls, i) ==
    /\ HeaderKind(ls[i]) = "none"
    /\ MatchesUnchecked(ls[i])
    /\ InAutomatedSection(ls, i)

\* an unchecked item with its box checked: `[ ]` becomes `[x]`
CheckOff(line) ==
    LET open == CHOOSE b \in 1..Len(line) : line[b] = "["
        close == CHOOSE c \in (open + 1)..Len(line) : line[c] = "]"
    IN  SubSeq(line, 1, open) \o <<"x">> \o SubSeq(line, close, Len(line))

\* the content ls with the box of its item i checked, all else equal
WithChecked(ls, i) == Join([ls EXCEPT ![i] = CheckOff(ls[i])])

\* C6 as claimed: a phase with an unchecked item in an automated section is
\* incomplete, and checking that one item makes the phase complete
C6_Original_CheckOneCompletes ==
    ParsedNow =>
        \A k \in 1..Len(phases) :
            LET ls == Split(phases[k].content)
            IN  \A i \in 1..Len(ls) :
                    UncheckedItemAt(ls, i)
                        => /\ ~phases[k].is_completed
                           /\ _is_phase_completed(WithChecked(ls, i))

\* C6 amended: a phase with an unchecked item in an automated section is
\* incomplete, and checking that one item makes the phase complete exactly
\* when it has no other unchecked item in an automated section
C6_CheckOneCompletesIfOnlyOne ==
    ParsedNow =>
        \A k \in 1..Len(phases) :
            LET ls == Split(phases[k].content)
            IN  \A i \in 1..Len(ls) :
                    UncheckedItemAt(ls, i)
                        => /\ ~phases[k].is_completed
                           /\ _is_phase_completed(WithChecked(ls, i))
                                <=> \A j \in 1..Len(ls) :
                                        UncheckedItemAt(ls, j) => j = i

\* a phase with one unchecked automated item, complete once it is checked
C6_Witness ==
    /\ ParsedNow
    /\ \E k \in 1..Len(phases) :
          LET ls == Split(phases[k].content)
          IN  \E i \in 1..Len(ls) :
                  /\ UncheckedItemAt(ls, i)
                  /\ ~phases[k].is_completed
                  /\ _is_phase_completed(WithChecked(ls, i))

C8_Original_OneBranchPerChunk ==
    \A c \in 1..Len(chunks) :
        LET text == chunks[c].text
            both == Contains(text, PHASE_TOKEN) /\ Contains(text, COMPLETE_TOKEN)
        IN  /\ both => "success" \in chunks[c].branches
            /\ "manual" \in chunks[c].branches
                  <=> (Contains(text, MANUAL_READY) /\ ~both)
            /\ Cardinality(chunks[c].branches) <= 1

\* C8 amended: the two checks are independent: a chunk takes the success
\* branch exactly when it holds both "Phase" and "Complete", and the
\* manual-verification branch exactly when it holds "Ready for Manual
\* Verification", so a chunk holding all three takes both
C8_BranchesIndependent ==
    \A c \in 1..Len(chunks) :
        LET text == chunks[c].text
            both == Contains(text, PHASE_TOKEN) /\ Contains(text, COMPLETE_TOKEN)
        IN  /\ "success" \in chunks[c].branches <=> both
            /\ "manual" \in chunks[c].branches <=> Contains(text, MANUAL_READY)

\* a chunk with "Phase", "Complete" and "Ready for Manual Verification" has
\* been classified
C8_Witness ==
    \E c \in 1..Len(chunks) :
        /\ Contains(chunks[c].text, PHASE_TOKEN)
        /\ Contains(chunks[c].text, COMPLETE_TOKEN)
        /\ Contains(chunks[c].text, MANUAL_READY)
        /\ chunks[c].branches = {"success", "manual"}

\* C9: a run reports that the implementation is complete only if
\* implement_phase returned True for every phase of the filtered list; a run
\* in which a phase returned False never reports completion
C9_CompletionReportedTruthfully ==
    Happened("log_implementation_complete")
        => /\ ~Happened("return_false")
           /\ \A i \in 1..Len(phases) : HappenedFor("return_true", i)

NoHeadingIn(ls) == \A i \in 1..Len(ls) : ~IsHeading(ls[i])

\* the plan file is missing, or its text holds no phase heading
NothingToRun == ~plan_exists \/ NoHeadingIn(Split(plan_text))

\* C10: when the plan file does not exist or holds no phase, the run ends with
\* an error reported (the exception, or the "No phases found" log line) and
\* before that does nothing: no implement_phase, no agent query, no report of
\* completion
C10_AbortBeforeAnyPhase ==
    NothingToRun =>
        /\ pc \in {"Pending", "Raised", "Returned", "Exited"}
        /\ \A k \in 1..Len(events) :
              events[k].ev \notin PhaseWork \cup {"log_implementation_complete"}
        /\ pc = "Raised" => ~plan_exists /\ error # NoError
        /\ pc = "Returned" => plan_exists /\ Happened("log_no_phases")

\* a run over an existing plan file with no phase has returned
C10_Witness ==
    /\ plan_exists
    /\ NothingToRun
    /\ pc = "Returned"
    /\ Happened("log_no_phases")

\* the run has left the loop over the phases, or ended, without an error
LoopLeft == pc \in {"AfterLoop", "Returned", "Exited"} /\ error = NoError

\* C11: in a dry run the agent is never queried and the prompt template is
\* never loaded, so the missing template never raises; every phase handed to
\* implement_phase returns True at once, and a run that leaves the loop has
\* handed over every phase of the filtered list and stopped on none
C11_DryRunNeverInvokes ==
    dry_run =>
        /\ \A k \in 1..Len(events) :
              events[k].ev \notin {"load_template", "query", "return_false", "log_failed"}
        /\ error # CommandNotFound
        /\ \A k \in 1..Len(events) :
              events[k].ev = "implement_phase"
                  => /\ k < Len(events)
                     /\ events[k + 1] = Ev("return_true", events[k].i)
        /\ (LoopLeft /\ ~Happened("log_no_phases"))
              => \A i \in 1..Len(phases) : HappenedFor("return_true", i)
        /\ (pc \in {"Returned", "Exited"} /\ error = NoError /\ ~Happened("log_no_phases"))
              => Happened("log_implementation_complete")

\* a dry run with the template missing that went through two phases, one of
\* them not completed, and reported completion
C11_Witness ==
    /\ dry_run
    /\ ~template_found
    /\ pc = "Returned"
    /\ Len(phases) >= 2
    /\ \E i \in 1..Len(phases) : ~phases[i].is_completed
    /\ \A i \in 1..Len(phases) : HappenedFor("return_true", i)
    /\ Happened("log_implementation_complete")

\* C12: in a live run the only error raised out of implement_phase is the one
\* for the missing template.  It is raised for a phase that is not completed,
\* with no agent query made in the run and every phase before it completed
\* and returned True; with the template missing, a phase that is not
\* completed gets no further than load_slash_command; over a list of completed
\* phases nothing is raised but the user's interrupt; and a phase that returned
\* False raised nothing
C12_RaisesOnlyForMissingTemplate ==
    ~dry_run =>
        /\ error \in {NoError, PlanNotFound, CommandNotFound, KeyboardInterrupt}
        /\ error = PlanNotFound => ~Happened("implement_phase")
        /\ error = CommandNotFound =>
              /\ ~template_found
              /\ idx \in 1..Len(phases)
              /\ ~phases[idx].is_completed
              /\ HappenedFor("implement_phase", idx)
              /\ ~HappenedFor("return_true", idx) /\ ~HappenedFor("return_false", idx)
              /\ ~Happened("query")
              /\ \A j \in 1..(idx - 1) :
                    phases[j].is_completed /\ HappenedFor("return_true", j)
        /\ \A i \in 1..Len(phases) :
              (/\ ~template_found
               /\ HappenedFor("implement_phase", i)
               /\ ~phases[i].is_completed)
                  => /\ idx = i
                     /\ pc \in {"Load", "Raised", "Exited"}
                     /\ pc # "Load" => error = CommandNotFound
        /\ (Happened("implement_phase") /\ \A i \in 1..Len(phases) : phases[i].is_completed)
              => error \in {NoError, KeyboardInterrupt}
        /\ Happened("return_false") => error = NoError

\* a live run with the template missing that skipped a completed first phase
\* and raised for the second
C12_Witness ==
    /\ ~dry_run
    /\ ~template_found
    /\ pc = "Raised"
    /\ error = CommandNotFound
    /\ idx = 2
    /\ phases[1].is_completed
    /\ HappenedFor("return_true", 1)

\* the last thing the run did
LastEvent == IF events = <<>> THEN "" ELSE events[Len(events)].ev

\* C13: the process ends with status 1 exactly when the user's interrupt or an
\* error (plan file not found, template not found) reached main's handlers,
\* and with status 0 when run_full_implementation returned, as it does after
\* a phase that failed and for a plan with no phase
C13_ExitCode ==
    /\ exit_code \in {None, Some(0), Some(1)}
    /\ exit_code # None <=> pc = "Exited"
    /\ exit_code = Some(1) <=>
          (pc = "Exited" /\ error \in {KeyboardInterrupt, PlanNotFound, CommandNotFound})
    /\ exit_code = Some(1) =>
          LastEvent = (IF error = KeyboardInterrupt THEN "print_interrupted" ELSE "log_error")
    /\ exit_code = Some(0) <=>
          (/\ pc = "Exited"
           /\ error = NoError
           /\ LastEvent \in {"log_no_phases", "log_implementation_complete"})
    /\ (pc = "Exited" /\ (Happened("log_failed") \/ Happened("log_no_phases")))
          => exit_code = Some(0)

\* a run that stopped on a failed phase has exited with status 0
C13_Witness ==
    /\ pc = "Exited"
    /\ Happened("return_false")
    /\ Happened("log_failed")
    /\ exit_code = Some(0)

\* C14: every phase after the first is handed to implement_phase right after
\* the pause that follows the phase before it, and no pause follows the last
\* phase of the filtered list, whatever the order of the phase numbers
C14_PauseAfterEveryPhaseButLast ==
    /\ \A k \in 1..Len(events) :
          (events[k].ev = "implement_phase" /\ events[k].i > 1)
              => events[k - 1] = Ev("sleep", events[k].i - 1)
    /\ \A k \in 1..Len(events) :
          events[k].ev = "sleep" => events[k].i < Len(phases)

\* how many times the run did ev
Count(ev) == Cardinality({ k \in 1..Len(events) : events[k].ev = ev })

\* the agent queries whose stream has not ended
InFlight == Count("query") - Count("stream_end")

\* C15: at most one agent query is in flight, and only while the phase's stream
\* is being read (or was being read when the user interrupted); the next thing
\* the run does after a query is to reach the end of that phase's stream and
\* return its verdict, so between two queries lies the end of the first one's
\* stream and its verdict
C15_OneQueryAtATime ==
    /\ InFlight \in {0, 1}
    /\ pc = "Stream" => InFlight = 1
    /\ InFlight = 1 => (pc = "Stream" \/ error = KeyboardInterrupt)
    /\ \A k \in 1..Len(events) :
          (events[k].ev = "query" /\ k < Len(events) /\ events[k + 1].ev # "print_interrupted")
              => /\ k + 2 <= Len(events)
                 /\ events[k + 1] = Ev("stream_end", events[k].i)
                 /\ events[k + 2].ev \in {"return_true", "return_false"}
                 /\ events[k + 2].i = events[k].i
    /\ \A k \in 1..Len(events) : \A m \in 1..Len(events) :
          (k < m /\ events[k].ev = "query" /\ events[m].ev = "query")
              => \E j \in (k + 1)..(m - 2) :
                    /\ events[j] = Ev("stream_end", events[k].i)
                    /\ events[j + 1].ev \in {"return_true", "return_false"}
                    /\ events[j + 1].i = events[k].i

\* the second phase's stream is still being read after a message that
\* signalled success, the first phase's stream having ended
C15_Witness ==
    /\ pc = "Stream"
    /\ idx = 2
    /\ HappenedFor("stream_end", 1)
    /\ Len(stream) = 2
    /\ \E b \in 1..Len(stream[1].content) :
          stream[1].content[b].is_text /\ SuccessIndicator(stream[1].content[b].text)
    /\ success

\* the numbers of the phases handed to implement_phase in the first k events,
\* in the order of the calls
RECURSIVE ExecutedNumbers(_)
ExecutedNumbers(k) ==
    IF k = 0 THEN <<>>
    ELSE IF events[k].ev = "implement_phase"
    THEN Append(ExecutedNumbers(k - 1), phases[events[k].i].number)
    ELSE ExecutedNumbers(k - 1)

\* the numbers of the phases of the document that lie inside the window, in
\* the order parse_plan met them
RECURSIVE EncounterNumbers(_)
EncounterNumbers(parsed) ==
    IF parsed = <<>> THEN <<>>
    ELSE (IF InClaimedWindow(parsed[1].number) THEN <<parsed[1].number>> ELSE <<>>)
             \o EncounterNumbers(Tail(parsed))

IsPrefix(s, t) == Len(s) <= Len(t) /\ s = SubSeq(t, 1, Len(s))

\* C16: the numbers of the phases handed to implement_phase, in the order of
\* the calls, are the numbers of the document's phases inside the window in
\* the order of the document: a prefix of them while the run goes on, all of
\* them when the loop ended on no failure
C16_EncounterOrder ==
    LET wanted == EncounterNumbers(parse_plan(plan_text))
        got == ExecutedNumbers(Len(events))
    IN  /\ IsPrefix(got, wanted)
        /\ (LoopLeft /\ ~Happened("log_failed")) => got = wanted

\* how many times the run did ev for the phase at position i of the list
CountFor(ev, i) == Cardinality({ k \in 1..Len(events) : events[k] = Ev(ev, i) })

\* implement_phase for the phase at position i got as far as the agent
ReachedAgent(i) ==
    /\ HappenedFor("implement_phase", i)
    /\ ~(idx = i /\ pc \in {"Load", "Query"})

\* C17: each phase of the filtered list is handed to implement_phase at most
\* once; the agent is queried once for a phase that is not completed and was
\* reached in a live run with the template present, and never for another
\* phase; no phase is handed over again after it returned False
C17_NoRetry ==
    \A i \in 1..Len(phases) :
        /\ CountFor("implement_phase", i) <= 1
        /\ CountFor("query", i) =
              (IF /\ ReachedAgent(i)
                  /\ ~phases[i].is_completed
                  /\ ~dry_run
                  /\ template_found
               THEN 1 ELSE 0)
        /\ \A k \in 1..Len(events) : \A m \in 1..Len(events) :
              (k < m /\ events[k] = Ev("return_false", i))
                  => events[m] # Ev("implement_phase", i)

\* a live run that queried the agent for a phase, got False, and ended
C17_Witness ==
    /\ pc = "Returned"
    /\ ~dry_run
    /\ template_found
    /\ \E i \in 1..Len(phases) :
          /\ HappenedFor("return_false", i)
          /\ CountFor("query", i) = 1
          /\ CountFor("implement_phase", i) = 1

\* how far a position inside one turn of the loop is from the end of the turn
\* (the messages the stream can still deliver are counted while it is read)
TurnWeight ==
    CASE pc = "Implement" -> MaxRunStream + 6
      [] pc = "Load" -> MaxRunStream + 5
      [] pc = "Query" -> MaxRunStream + 4
      [] pc = "Stream" -> 3 + (MaxRunStream - Len(stream))
      [] pc = "PhaseReturned" -> 2
      [] pc = "Sleep" -> 1
      [] OTHER -> 0

\* one more than the greatest TurnWeight
TurnLength == MaxRunStream + 7

\* a measure of what the run still has to do
Rank ==
    CASE pc = "Pending" -> 5 + (MaxPhases + 1) * TurnLength
      [] pc = "Parsed" -> 4 + (MaxPhases + 1) * TurnLength
      [] pc \in {"Loop", "Implement", "Load", "Query", "Stream", "PhaseReturned", "Sleep"}
            -> 3 + (Len(phases) - idx) * TurnLength + TurnWeight
      [] pc = "AfterLoop" -> 2
      [] pc \in {"Returned", "Raised"} -> 1
      [] OTHER -> 0

\* the process has ended
Terminal == pc = "Exited"

\* C18: every step of a run brings it closer to its end (the measure Rank,
\* a natural number, decreases), the position in the list of phases never
\* goes back and moves by one phase at most, and a run that has started and
\* not ended can take a step (before it starts its step is ParsePlan, which
\* has a branch for either value of plan_exists): so every run ends, each
\* phase visited once at most
C18_Terminates ==
    /\ [][Rank' < Rank /\ idx' \in {idx, idx + 1}]_vars
    /\ [](Rank \in Nat /\ idx \in 0..Len(phases))
    /\ [](Terminal \/ pc = "Pending" \/ ENABLED Next)

\* a run over two phases that went through both has ended
C18_Witness ==
    /\ Terminal
    /\ Len(phases) = 2
    /\ HappenedFor("implement_phase", 1)
    /\ HappenedFor("implement_phase", 2)
    /\ HappenedFor("query", 2)

\* the run holds its filtered list of phases
ListFixed == pc \notin {"Pending", "Parsed"}

\* C19: the plan file is opened once at most and its text never changes; once
\* the list of phases is filtered, no step changes a record of it, and every
\* record keeps the is_completed that _is_phase_completed gives for its
\* content, also when the phase has returned True
C19_PhaseRecordsFixed ==
    /\ [][plan_exists' = plan_exists /\ plan_text' = plan_text]_vars
    /\ [][ListFixed => phases' = phases]_vars
    /\ [][pc = "Parsed" =>
             \A i \in 1..Len(phases') : \E j \in 1..Len(phases) : phases'[i] = phases[j]]_vars
    /\ [](Count("open_plan") <= 1)
    /\ [](\A i \in 1..Len(phases) :
             phases[i].is_completed = _is_phase_completed(phases[i].content))

\* a live run in which a phase that is not completed has returned True, with
\* the run ended
C19_Witness ==
    /\ Terminal
    /\ \E i \in 1..Len(phases) :
          /\ ~phases[i].is_completed
          /\ HappenedFor("query", i)
          /\ HappenedFor("return_true", i)
          /\ HappenedFor("log_phase_completed", i)

====
